---- MODULE Spec2Model ----
(***************************************************************************)
(* A model of wally's installation engine (src/src/installation.rs) and of *)
(* its type-export extractor (src/src/extract_types.rs).                   *)
(*                                                                         *)
(* Source text is a sequence of one-character strings; scan positions are  *)
(* 0-based as in the source, so get(code, at) reads code[at + 1].          *)
(***************************************************************************)
EXTENDS Naturals, Sequences, FiniteSets, TLC

VARIABLES
    resolved,           \* install's `resolved: Resolve` argument
    shared_path,        \* InstallationContext.shared_path  (<<>> is None)
    server_path,        \* InstallationContext.server_path  (<<>> is None)
    pc,                 \* where install is: idle, join, abort, link, ok, err, panic
    error,              \* the error install returns ("none" while it has none)
    unit,               \* per dispatched package: position of its blocking closure
    handles,            \* install's `handles` vector, in dispatch order
    join_at,            \* 1-based position of the join loop in `handles`
    types_for_package,  \* install's PackageTypeExports lookup
    cursor,             \* 1-based position of the link-writing loops in LinkPlan
    dirs,               \* directories on disk (paths are sequences of components)
    unpacked,           \* package directories whose contents are fully unpacked
    files,              \* link files on disk: path -> contents
    lua_code,           \* parse_types' argument, with how it was put together
    stripped,           \* strip_comments_and_strings' outcome on lua_code
    parsed,             \* parse_types' outcome on lua_code
    earlier_tree,       \* the tree the last successful install had left when it
                        \* was cleaned away
    lexer,              \* the locals of strip_comments_and_strings inside its loop
    parser              \* the locals of parse_types inside its loop

vars == << resolved, shared_path, server_path, pc, error, unit, handles, join_at,
           types_for_package, cursor, dirs, unpacked, files,
           lua_code, stripped, parsed, earlier_tree, lexer, parser >>

installVars == << resolved, shared_path, server_path, pc, error, unit, handles,
                  join_at, types_for_package, cursor, dirs, unpacked, files,
                  earlier_tree >>

parseVars == << lua_code, stripped, parsed, lexer, parser >>

(***************************************************************************)
(* Characters                                                              *)
(***************************************************************************)

\* get's out-of-range value '\0'
NUL == "NUL"

\* the backtick character (a TLA+ string cannot hold it)
Backtick == "BACKTICK"

\* char::is_ascii_whitespace
IsAsciiWhitespace(c) == c \in {" ", "\t", "\n", "\r", "\f"}

Digits == {"0", "1", "2", "3", "4", "5", "6", "7", "8", "9"}

Letters ==
    {"a", "b", "c", "d", "e", "f", "g", "h", "i", "j", "k", "l", "m",
     "n", "o", "p", "q", "r", "s", "t", "u", "v", "w", "x", "y", "z",
     "A", "B", "C", "D", "E", "F", "G", "H", "I", "J", "K", "L", "M",
     "N", "O", "P", "Q", "R", "S", "T", "U", "V", "W", "X", "Y", "Z"}

\* the identifier test of the parser's three scanning loops
IsIdentChar(c) == c \in Letters \cup Digits \cup {"_"}

kwExport == <<"e", "x", "p", "o", "r", "t">>
kwType == <<"t", "y", "p", "e">>
kwDots == <<".", ".", ".">>

\* fn get(code, at)
get(code, at) == IF at >= Len(code) THEN NUL ELSE code[at + 1]

\* lua_code[index..].starts_with(word)
starts_with(code, index, word) ==
    /\ index + Len(word) <= Len(code)
    /\ \A k \in 1..Len(word) : code[index + k] = word[k]

\* &lua_code[start..end]
Slice(code, start, end) == [k \in 1..(end - start) |-> code[start + k]]

\* a String built from characters
RECURSIVE Str(_)
Str(s) == IF s = <<>> THEN "" ELSE Head(s) \o Str(Tail(s))

(***************************************************************************)
(* Lexical stripper: strip_comments_and_strings                            *)
(***************************************************************************)

LexCode == [tag |-> "Code", depth |-> 0]
LexTemplateString == [tag |-> "TemplateString", depth |-> 0]
LexDoubleQuoteString == [tag |-> "DoubleQuoteString", depth |-> 0]
LexSingleQuoteString == [tag |-> "SingleQuoteString", depth |-> 0]
LexBlockString(level) == [tag |-> "BlockString", depth |-> level]
LexLineComment == [tag |-> "LineComment", depth |-> 0]
LexBlockComment(level) == [tag |-> "BlockComment", depth |-> level]

\* the `while get(lua_code, index) == '='` loops: the length of the run of '='
RECURSIVE CountEq(_, _)
CountEq(code, at) == IF get(code, at) = "=" THEN 1 + CountEq(code, at + 1) ELSE 0

\* fn is_end_of_block, mutated: the '=' between the brackets are not counted
is_end_of_block_any_level(code, at, level) ==
    /\ get(code, at) = "]"
    /\ get(code, at + CountEq(code, at + 1) + 1) = "]"

\* fn is_end_of_block
is_end_of_block(code, at, level) ==
    /\ get(code, at) = "]"
    /\ \A k \in 1..level : get(code, at + k) = "="
    /\ get(code, at + level + 1) = "]"

\* the locals of strip_comments_and_strings before its loop
LexInit == [index |-> 0, state |-> LexCode, output |-> <<>>, panicked |-> FALSE]

\* the arm (LexState::Code, '[', '=' | '[')
LexOpenBlockString(code, s) ==
    LET peek == get(code, s.index + 1)
        run == CountEq(code, s.index + 2)
        level == (IF peek = "=" THEN 1 ELSE 0) + run
        index == s.index + 2 + run
    IN  IF level > 0
        THEN IF get(code, index) = "["
             THEN [s EXCEPT !.state = LexBlockString(level), !.index = index + 1]
             ELSE [s EXCEPT !.state = LexBlockString(level), !.index = index,
                            !.panicked = TRUE]
        ELSE [s EXCEPT !.state = LexBlockString(level), !.index = index]

\* the arm (LexState::Code, '-', '-')
LexOpenComment(code, s) ==
    IF get(code, s.index + 2) = "["
    THEN LET level == CountEq(code, s.index + 3)
             index == s.index + 3 + level
         IN  IF get(code, index) = "["
             THEN [s EXCEPT !.state = LexBlockComment(level), !.index = index + 1]
             ELSE [s EXCEPT !.state = LexLineComment, !.index = index]
    ELSE [s EXCEPT !.state = LexLineComment, !.index = s.index + 2]

\* the arms of BlockString(depth) and BlockComment(depth), mutated: the else
\* branch does not move on
LexCloseBlock_stays(code, s) ==
    IF is_end_of_block(code, s.index, s.state.depth)
    THEN [s EXCEPT !.state = LexCode, !.index = s.index + s.state.depth + 2]
    ELSE s

\* the arms of BlockString(depth) and BlockComment(depth) on (']', '=' | ']')
LexCloseBlock(code, s) ==
    IF is_end_of_block(code, s.index, s.state.depth)
    THEN [s EXCEPT !.state = LexCode, !.index = s.index + s.state.depth + 2]
    ELSE [s EXCEPT !.index = s.index + 1]

\* the arms of a quoted string state, mutated: the arm for a backslash before
\* the quote character is missing
LexQuoted_no_escape(code, s, q) ==
    IF get(code, s.index) = q THEN [s EXCEPT !.state = LexCode, !.index = s.index + 1]
    ELSE [s EXCEPT !.index = s.index + 1]

\* the arms of a quoted string state whose quote character is q
LexQuoted(code, s, q) ==
    LET c == get(code, s.index)
        peek == get(code, s.index + 1)
    IN  IF c = q THEN [s EXCEPT !.state = LexCode, !.index = s.index + 1]
        ELSE IF c = "\\" /\ peek = q THEN [s EXCEPT !.index = s.index + 2]
        ELSE [s EXCEPT !.index = s.index + 1]

\* one iteration of the loop of strip_comments_and_strings: its match, arm by arm
LexStep(code, s) ==
    LET c == get(code, s.index)
        peek == get(code, s.index + 1)
        tag == s.state.tag
    IN  IF tag = "Code" THEN
            IF c = Backtick THEN [s EXCEPT !.state = LexTemplateString, !.index = s.index + 1]
            ELSE IF c = "\"" THEN [s EXCEPT !.state = LexDoubleQuoteString, !.index = s.index + 1]
            ELSE IF c = "'" THEN [s EXCEPT !.state = LexSingleQuoteString, !.index = s.index + 1]
            ELSE IF c = "[" /\ peek \in {"=", "["} THEN LexOpenBlockString(code, s)
            ELSE IF c = "-" /\ peek = "-" THEN LexOpenComment(code, s)
            ELSE [s EXCEPT !.output = Append(s.output, c), !.index = s.index + 1]
        ELSE IF tag = "TemplateString" THEN LexQuoted(code, s, Backtick)
        ELSE IF tag = "DoubleQuoteString" THEN LexQuoted(code, s, "\"")
        ELSE IF tag = "SingleQuoteString" THEN LexQuoted(code, s, "'")
        ELSE IF tag \in {"BlockString", "BlockComment"} /\ c = "]" /\ peek \in {"=", "]"}
            THEN LexCloseBlock(code, s)
        ELSE IF tag = "LineComment" /\ c = "\n" THEN [s EXCEPT !.state = LexCode]
        ELSE [s EXCEPT !.index = s.index + 1]

\* the loop of strip_comments_and_strings, run from s to its end or to a panic
RECURSIVE LexRun(_, _)
LexRun(code, s) ==
    IF s.panicked \/ s.index >= Len(code) THEN s ELSE LexRun(code, LexStep(code, s))

\* fn strip_comments_and_strings: its output, or panicked when an assert! fails
strip_comments_and_strings(code) ==
    LET s == LexRun(code, LexInit)
    IN  [output |-> s.output, panicked |-> s.panicked]

(***************************************************************************)
(* Export-type parser: parse_types                                         *)
(***************************************************************************)

\* Option<String>: None is <<>>, Some(v) is <<v>>
None == <<>>
Some(v) == <<v>>

\* TypeParam::new
NewTypeParam == [name |-> <<>>, is_pack |-> FALSE, default |-> None]

\* ExportStatement::new
NewExportStatement == [name |-> <<>>, is_exported |-> FALSE, type_params |-> <<>>]

\* ExtractTypesResult::new (its `statements`)
NewExtractTypesResult == <<>>

\* ExtractTypesResult::add_statement, mutated: the is_exported test is missing
add_statement_keeps_all(statements, statement) == Append(statements, statement)

\* ExtractTypesResult::add_statement, mutated: the statement is put first
add_statement_prepends(statements, statement) ==
    IF statement.is_exported THEN << statement >> \o statements ELSE statements

\* ExtractTypesResult::add_statement
add_statement(statements, statement) ==
    IF statement.is_exported THEN Append(statements, statement) ELSE statements

\* ExtractTypesResult::is_empty
is_empty(exports) == exports = <<>>

\* the `while c.is_ascii_whitespace()` loop: the first position at or after `at`
\* that holds no whitespace
RECURSIVE SkipWhitespace(_, _)
SkipWhitespace(code, at) ==
    IF IsAsciiWhitespace(get(code, at)) THEN SkipWhitespace(code, at + 1) ELSE at

\* the identifier loops: the first position at or after `at` that holds no
\* identifier character
RECURSIVE IdentEnd(_, _)
IdentEnd(code, at) ==
    IF IsIdentChar(get(code, at)) THEN IdentEnd(code, at + 1) ELSE at

\* the locals of parse_types before its loop
ParseInit ==
    [index |-> 0, state |-> "Code",
     current_export_statement |-> NewExportStatement,
     current_type_param |-> NewTypeParam,
     result |-> NewExtractTypesResult,
     non_exported_types |-> {},
     panicked |-> FALSE, done |-> FALSE]

\* the arm (ParseState::Type, _)
ParseTypeName(code, s, index) ==
    LET end == IdentEnd(code, index)
        type_name == Slice(code, index, end)
    IN  [s EXCEPT !.index = end,
                  !.current_export_statement.name = type_name,
                  !.non_exported_types =
                      IF s.current_export_statement.is_exported THEN @
                      ELSE @ \cup {type_name},
                  !.state = "StartTypeParamList"]

\* the arm (ParseState::TypeParam, _)
ParseTypeParam(code, s, index) ==
    LET end == IdentEnd(code, index)
        param_name == Slice(code, index, end)
    IN  IF Len(param_name) > 0
        THEN [s EXCEPT !.index = end, !.current_type_param.name = param_name,
                       !.state = "TypePack"]
        ELSE [s EXCEPT !.index = end, !.panicked = TRUE]

\* the arm (ParseState::TypeDefaultName, _)
ParseTypeDefaultName(code, s, index) ==
    LET end == IdentEnd(code, index)
        default_name == Slice(code, index, end)
        param == [s.current_type_param EXCEPT !.default = Some(default_name)]
    IN  IF Len(default_name) > 0
        THEN [s EXCEPT !.index = end,
                       !.current_type_param = NewTypeParam,
                       !.current_export_statement.type_params = Append(@, param),
                       !.state = "NextTypeParam"]
        ELSE [s EXCEPT !.index = end, !.panicked = TRUE]

\* one iteration of the loop of parse_types: the whitespace skip, the break at
\* the end of the text, then the match, arm by arm
ParseStep(code, s) ==
    LET index == SkipWhitespace(code, s.index)
        c == get(code, index)
        state == s.state
        at == [s EXCEPT !.index = index]
    IN  IF index >= Len(code) THEN [at EXCEPT !.done = TRUE]
        ELSE IF state = "Code" /\ c = "e" THEN
            IF starts_with(code, index, kwExport)
            THEN [at EXCEPT !.state = "Export",
                            !.current_export_statement.is_exported = TRUE,
                            !.index = index + Len(kwExport)]
            ELSE [at EXCEPT !.index = index + 1]
        ELSE IF state = "Code" /\ c = "t" THEN
            IF starts_with(code, index, kwType)
            THEN [at EXCEPT !.state = "Type",
                            !.current_export_statement.is_exported = FALSE,
                            !.index = index + Len(kwType)]
            ELSE [at EXCEPT !.index = index + 1]
        ELSE IF state = "Export" /\ c = "t" THEN
            IF starts_with(code, index, kwType)
            THEN [at EXCEPT !.state = "Type", !.index = index + Len(kwType)]
            ELSE [at EXCEPT !.state = "Code"]
        ELSE IF state = "Type" THEN ParseTypeName(code, at, index)
        ELSE IF state = "StartTypeParamList" /\ c = "<" THEN
            [at EXCEPT !.state = "TypeParam", !.index = index + 1]
        ELSE IF state = "StartTypeParamList" THEN
            [at EXCEPT !.result = add_statement(@, s.current_export_statement),
                       !.current_export_statement = NewExportStatement,
                       !.state = "Code"]
        ELSE IF state = "TypeParam" THEN ParseTypeParam(code, at, index)
        ELSE IF state = "TypePack" /\ c = "." THEN
            IF starts_with(code, index, kwDots)
            THEN [at EXCEPT !.current_type_param.is_pack = TRUE,
                            !.index = index + Len(kwDots),
                            !.state = "TypeDefault"]
            ELSE [at EXCEPT !.state = "TypeDefault"]
        ELSE IF state = "TypePack" THEN [at EXCEPT !.state = "TypeDefault"]
        ELSE IF state = "TypeDefault" /\ c = "=" THEN
            [at EXCEPT !.index = index + 1, !.state = "TypeDefaultName"]
        ELSE IF state = "TypeDefault" THEN
            [at EXCEPT !.current_export_statement.type_params =
                           Append(@, s.current_type_param),
                       !.current_type_param = NewTypeParam,
                       !.state = "NextTypeParam"]
        ELSE IF state = "TypeDefaultName" THEN ParseTypeDefaultName(code, at, index)
        ELSE IF state = "NextTypeParam" /\ c = "," THEN
            [at EXCEPT !.index = index + 1, !.state = "TypeParam"]
        ELSE IF state = "NextTypeParam" /\ c = ">" THEN
            [at EXCEPT !.result = add_statement(@, s.current_export_statement),
                       !.current_export_statement = NewExportStatement,
                       !.index = index + 1,
                       !.state = "Code"]
        ELSE [at EXCEPT !.index = index + 1]

\* the loop of parse_types, run from s to its end or to a panic
RECURSIVE ParseRun(_, _)
ParseRun(code, s) ==
    IF s.panicked \/ s.done \/ s.index >= Len(code) THEN s
    ELSE ParseRun(code, ParseStep(code, s))

\* the post-processing loop of parse_types, mutated: it is skipped
ClearPrivateDefaults_kept(statements, non_exported_types) == statements

\* the post-processing loop of parse_types: a default naming a non-exported
\* type is cleared
ClearPrivateDefaults(statements, non_exported_types) ==
    [i \in 1..Len(statements) |->
        [statements[i] EXCEPT !.type_params =
            [j \in 1..Len(@) |->
                IF @[j].default # None /\ @[j].default[1] \in non_exported_types
                THEN [@[j] EXCEPT !.default = None]
                ELSE @[j]]]]

\* parse_types on text that is already stripped
parse_stripped(code) ==
    LET s == ParseRun(code, ParseInit)
    IN  [statements |-> IF s.panicked THEN <<>>
                        ELSE ClearPrivateDefaults(s.result, s.non_exported_types),
         panicked |-> s.panicked]

\* fn parse_types: its ExtractTypesResult, or panicked when an assert! fails
parse_types(code) ==
    LET text == strip_comments_and_strings(code)
    IN  IF text.panicked THEN [statements |-> <<>>, panicked |-> TRUE]
        ELSE parse_stripped(text.output)

(***************************************************************************)
(* Forwarding statements                                                   *)
(***************************************************************************)

\* Vec<String>::join(sep)
RECURSIVE Join(_, _)
Join(strings, sep) ==
    IF strings = <<>> THEN ""
    ELSE IF Len(strings) = 1 THEN strings[1]
    ELSE strings[1] \o sep \o Join(Tail(strings), sep)

\* to_forwarding_statement, mutated: the branch for no parameters is missing
to_forwarding_statement_always_generic(statement, module_name) ==
    LET names == [i \in 1..Len(statement.type_params) |->
                     Str(statement.type_params[i].name)]
    IN  "export type " \o Str(statement.name) \o "<" \o Join(names, ", ")
            \o "> = " \o module_name \o "." \o Str(statement.name)
            \o "<" \o Join(names, ", ") \o ">"

\* to_forwarding_statement, mutated: the arguments repeat the declared
\* parameters, defaults included
to_forwarding_statement_default_in_arguments(statement, module_name) ==
    IF Len(statement.type_params) = 0
    THEN "export type " \o Str(statement.name) \o " = " \o module_name \o "."
             \o Str(statement.name)
    ELSE LET params == [i \in 1..Len(statement.type_params) |->
                 LET param == statement.type_params[i]
                     pack == IF param.is_pack THEN "..." ELSE ""
                     default == IF param.default = None THEN ""
                                ELSE " = " \o Str(param.default[1])
                 IN  Str(param.name) \o pack \o default]
         IN  "export type " \o Str(statement.name) \o "<" \o Join(params, ", ")
                 \o "> = " \o module_name \o "." \o Str(statement.name)
                 \o "<" \o Join(params, ", ") \o ">"

\* to_forwarding_statement, mutated: the arguments lose the pack marker
to_forwarding_statement_pack_dropped(statement, module_name) ==
    IF Len(statement.type_params) = 0
    THEN "export type " \o Str(statement.name) \o " = " \o module_name \o "."
             \o Str(statement.name)
    ELSE LET params == [i \in 1..Len(statement.type_params) |->
                 LET param == statement.type_params[i]
                     pack == IF param.is_pack THEN "..." ELSE ""
                     default == IF param.default = None THEN ""
                                ELSE " = " \o Str(param.default[1])
                 IN  Str(param.name) \o pack \o default]
             param_names == [i \in 1..Len(statement.type_params) |->
                 Str(statement.type_params[i].name)]
         IN  "export type " \o Str(statement.name) \o "<" \o Join(params, ", ")
                 \o "> = " \o module_name \o "." \o Str(statement.name)
                 \o "<" \o Join(param_names, ", ") \o ">"

\* ExportStatement::to_forwarding_statement
to_forwarding_statement(statement, module_name) ==
    IF Len(statement.type_params) = 0
    THEN "export type " \o Str(statement.name) \o " = " \o module_name \o "."
             \o Str(statement.name)
    ELSE LET params == [i \in 1..Len(statement.type_params) |->
                 LET param == statement.type_params[i]
                     pack == IF param.is_pack THEN "..." ELSE ""
                     default == IF param.default = None THEN ""
                                ELSE " = " \o Str(param.default[1])
                 IN  Str(param.name) \o pack \o default]
             param_names == [i \in 1..Len(statement.type_params) |->
                 LET param == statement.type_params[i]
                     pack == IF param.is_pack THEN "..." ELSE ""
                 IN  Str(param.name) \o pack]
         IN  "export type " \o Str(statement.name) \o "<" \o Join(params, ", ")
                 \o "> = " \o module_name \o "." \o Str(statement.name)
                 \o "<" \o Join(param_names, ", ") \o ">"

\* ExtractTypesResult::format_forwarding_statements
format_forwarding_statements(exports, module_name) ==
    Join([i \in 1..Len(exports) |-> to_forwarding_statement(exports[i], module_name)],
         "\n")

(***************************************************************************)
(* Type extractor facade: extract_types                                    *)
(***************************************************************************)

\* What a package unpacks to, as far as extract_types reads it:
\*   project   the state of default.project.json: "absent", "unreadable",
\*             "invalid" (not JSON), "no_tree" (no tree entry) or "ok"
\*   init_lua, init_luau   None when the file is absent, else Some of
\*             [readable, text]
PackageText(text) == Some([readable |-> TRUE, text |-> text])

\* fn extract_types, mutated: the entry file is read with an unwrap
extract_types_unwraps(package) ==
    LET empty == [statements |-> NewExtractTypesResult, panicked |-> FALSE]
        init_path == IF package.init_lua # None THEN package.init_lua
                     ELSE package.init_luau
    IN  IF package.project \in {"absent", "unreadable", "invalid", "no_tree"}
        THEN empty
        ELSE IF init_path = None THEN empty
        ELSE IF ~init_path[1].readable THEN [statements |-> << >>, panicked |-> TRUE]
        ELSE parse_types(init_path[1].text)

\* fn extract_types: the ExtractTypesResult of an unpacked package
extract_types(package) ==
    LET empty == [statements |-> NewExtractTypesResult, panicked |-> FALSE]
        init_path == IF package.init_lua # None THEN package.init_lua
                     ELSE package.init_luau
    IN  IF package.project \in {"absent", "unreadable", "invalid", "no_tree"}
        THEN empty
        ELSE IF init_path = None THEN empty
        ELSE IF ~init_path[1].readable THEN empty
        ELSE parse_types(init_path[1].text)

(***************************************************************************)
(* Packages, realms and the resolution graph                               *)
(***************************************************************************)

\* enum Realm
Realm == {"Shared", "Server", "Dev"}

\* the order of install's three `if let Some(deps)` blocks
RealmOrder == <<"Shared", "Server", "Dev">>

\* PackageId values: the project itself and the packages of the registry
idRoot == [scope |-> "acme", name |-> "main", version |-> "0.1.0"]
idA == [scope |-> "acme", name |-> "alpha", version |-> "1.0.0"]
idA2 == [scope |-> "acme", name |-> "alpha", version |-> "2.0.0"]
idB == [scope |-> "acme", name |-> "nova", version |-> "2.1.0"]
idC == [scope |-> "acme", name |-> "zeta", version |-> "0.3.0"]
idD == [scope |-> "acme", name |-> "locked", version |-> "1.0.0"]
idE == [scope |-> "acme", name |-> "garbled", version |-> "1.0.0"]
idF == [scope |-> "acme", name |-> "treeless", version |-> "1.0.0"]
idG == [scope |-> "acme", name |-> "hollow", version |-> "1.0.0"]
idH == [scope |-> "acme", name |-> "sealed", version |-> "1.0.0"]

\* Ord on PackageId: the iteration order of the BTreeSet `activated`
IdOrder == <<idA, idA2, idE, idG, idD, idRoot, idB, idH, idF, idC>>

\* Ord on the alias strings: the iteration order of a dependency BTreeMap
AliasOrder == <<"A", "B">>

\* the members of S, in the order of `order`
InOrder(order, S) == SelectSeq(order, LAMBDA x : x \in S)

\* source text, as characters
chExportType == kwExport \o <<" ">> \o kwType \o <<" ">>
srcAlpha ==
    chExportType \o <<"M", "a", "p", "<", "K", ",", " ", "V", " ", "=", " ",
                      "s", "t", "r", "i", "n", "g", ">", " ", "=", " ", "{", "}", "\n">>
    \o <<"-", "-", " ">> \o chExportType \o <<"F", "a", "k", "e", " ", "=", " ", "1", "\n">>
    \o chExportType \o <<"I", "d", " ", "=", " ", "n", "u", "m", "b", "e", "r", "\n">>
srcZeta ==
    kwType \o <<" ", "H", " ", "=", " ", "{", "}", "\n">>
    \o chExportType \o <<"P", "<", "T", ".", ".", ".", ",", " ", "U", " ", "=", " ", "H",
                         ">", " ", "=", " ", "U", "\n">>

\* PackageSource::download_package: what the registry holds for each package
PackageContents(id) ==
    IF id = idA THEN [project |-> "ok", init_lua |-> PackageText(srcAlpha), init_luau |-> None]
    ELSE IF id \in {idC, idA2}
    THEN [project |-> "ok", init_lua |-> None, init_luau |-> PackageText(srcZeta)]
    ELSE IF id = idD
    THEN [project |-> "unreadable", init_lua |-> PackageText(srcAlpha), init_luau |-> None]
    ELSE IF id = idE
    THEN [project |-> "invalid", init_lua |-> PackageText(srcAlpha), init_luau |-> None]
    ELSE IF id = idF
    THEN [project |-> "no_tree", init_lua |-> PackageText(srcAlpha), init_luau |-> None]
    ELSE IF id = idG THEN [project |-> "ok", init_lua |-> None, init_luau |-> None]
    ELSE IF id = idH
    THEN [project |-> "ok", init_lua |-> Some([readable |-> FALSE, text |-> << >>]),
          init_luau |-> PackageText(srcAlpha)]
    ELSE [project |-> "absent", init_lua |-> PackageText(srcAlpha), init_luau |-> None]

\* the packages of the registry
Registry == {idA, idA2, idB, idC, idD, idE, idF, idG, idH}

\* extract_types on each package of the registry, once unpacked
ExtractedTypes == [id \in Registry |-> extract_types(PackageContents(id))]

\* One dependency edge: `from` maps `alias` to `to` in its `list` dependencies
EdgeUniverse(packages) ==
    {e \in [from : packages \cup {idRoot}, list : Realm,
            alias : {AliasOrder[i] : i \in 1..Len(AliasOrder)}, to : packages] :
        e.from # e.to}

\* a dependency BTreeMap holds one dependency per alias
IsFunctional(g) ==
    \A e1, e2 \in g :
        (e1.from = e2.from /\ e1.list = e2.list /\ e1.alias = e2.alias) => e1 = e2

\* the sets of at most k members of S
RECURSIVE SubsetsUpTo(_, _)
SubsetsUpTo(S, k) ==
    IF k = 0 THEN {{}}
    ELSE LET smaller == SubsetsUpTo(S, k - 1)
         IN  smaller \cup {g \cup {e} : g \in smaller, e \in S}

\* a field of Resolve: shared_dependencies, server_dependencies or dev_dependencies
DependencyMap(g, list) ==
    [p \in {e.from : e \in {x \in g : x.list = list}} |->
        [al \in {e.alias : e \in {x \in g : x.list = list /\ x.from = p}} |->
            (CHOOSE e \in g : e.list = list /\ e.from = p /\ e.alias = al).to]]

\* struct Resolve, for the edges g and the origin realms `realms`
ResolveOf(g, realms) ==
    [activated |-> {idRoot} \cup DOMAIN realms,
     metadata |-> [p \in DOMAIN realms |-> [origin_realm |-> realms[p]]],
     shared_dependencies |-> DependencyMap(g, "Shared"),
     server_dependencies |-> DependencyMap(g, "Server"),
     dev_dependencies |-> DependencyMap(g, "Dev")]

\* the dependency field of `resolved` that install reads for a list
DependenciesOf(r, list) ==
    IF list = "Shared" THEN r.shared_dependencies
    ELSE IF list = "Server" THEN r.server_dependencies
    ELSE r.dev_dependencies

\* every entry of the three dependency fields of a Resolve, as an edge
Edges(r) ==
    UNION {UNION {{[from |-> p, list |-> list, alias |-> al,
                    to |-> DependenciesOf(r, list)[p][al]] :
                      al \in DOMAIN DependenciesOf(r, list)[p]} :
                  p \in DOMAIN DependenciesOf(r, list)} :
           list \in Realm}

(***************************************************************************)
(* Paths and link contents                                                 *)
(***************************************************************************)

\* InstallationContext::new
shared_dir == <<"Packages">>
server_dir == <<"ServerPackages">>
dev_dir == <<"DevPackages">>
shared_index_dir == Append(shared_dir, "_Index")
server_index_dir == Append(server_dir, "_Index")
dev_index_dir == Append(dev_dir, "_Index")

\* the `match realm` of write_root_package_links
RealmDir(realm) ==
    IF realm = "Shared" THEN shared_dir
    ELSE IF realm = "Server" THEN server_dir
    ELSE dev_dir

\* the `match realm` of write_package_links and write_contents
RealmIndexDir(realm) ==
    IF realm = "Shared" THEN shared_index_dir
    ELSE IF realm = "Server" THEN server_index_dir
    ELSE dev_index_dir

\* fn package_id_file_name, mutated: the version is left out
package_id_file_name_without_version(id) == id.scope \o "_" \o id.name

\* fn package_id_file_name
package_id_file_name(id) == id.scope \o "_" \o id.name \o "@" \o id.version

\* fs::create_dir_all: the directory and its ancestors
create_dir_all(path) == {SubSeq(path, 1, n) : n \in 1..Len(path)}

\* the directory write_contents unpacks a package into
ContentsPath(id, realm) ==
    RealmIndexDir(realm) \o <<package_id_file_name(id), id.name>>

\* the link body, mutated: the exported types are never forwarded
LinkText_return_only(path, exports) == "return require(" \o path \o ")\n"

\* the two shapes every link body has, around the required path
LinkText(path, exports) ==
    IF is_empty(exports)
    THEN "return require(" \o path \o ")\n"
    ELSE "local MODULE = require(" \o path \o ")\n"
             \o format_forwarding_statements(exports, "MODULE") \o "\n"
             \o "return MODULE\n"

\* the ["full_name"]["short_name"] tail of a required path
IndexSlot(id) == "[\"" \o package_id_file_name(id) \o "\"][\"" \o id.name \o "\"]"

\* InstallationContext::link_sibling_same_index, mutated: it requires the way
\* the root does, through the _Index below the dependent's parent
link_sibling_same_index_through_index(id, exports) ==
    LinkText("script.Parent._Index" \o IndexSlot(id), exports)

\* InstallationContext::link_sibling_same_index
link_sibling_same_index(id, exports) ==
    LinkText("script.Parent.Parent" \o IndexSlot(id), exports)

\* InstallationContext::link_root_same_index
link_root_same_index(id, exports) ==
    LinkText("script.Parent._Index" \o IndexSlot(id), exports)

\* InstallationContext::link_shared_index
link_shared_index(path_option, id, exports) ==
    IF path_option = None THEN [ok |-> FALSE, error |-> "shared-packages"]
    ELSE [ok |-> TRUE,
          contents |-> LinkText(path_option[1] \o "._Index" \o IndexSlot(id), exports)]

\* InstallationContext::link_server_index, mutated: with no server-packages
\* setting it links relative to the dependent instead of failing
link_server_index_relative(path_option, id, exports) ==
    [ok |-> TRUE,
     contents |-> LinkText((IF path_option = None THEN "script.Parent"
                            ELSE path_option[1]) \o "._Index" \o IndexSlot(id), exports)]

\* InstallationContext::link_server_index
link_server_index(path_option, id, exports) ==
    IF path_option = None THEN [ok |-> FALSE, error |-> "server-packages"]
    ELSE [ok |-> TRUE,
          contents |-> LinkText(path_option[1] \o "._Index" \o IndexSlot(id), exports)]

\* the `match (source, dest)`, mutated: the (_, Realm::Dev) arm links into the
\* index like the same-realm arm instead of bailing
LinkContents_dev_linked(is_root, source, dest, sp, vp, id, exports) ==
    IF source = dest \/ dest = "Dev"
    THEN [ok |-> TRUE,
          contents |-> IF is_root THEN link_root_same_index(id, exports)
                       ELSE link_sibling_same_index(id, exports)]
    ELSE IF dest = "Server" THEN link_server_index(vp, id, exports)
    ELSE link_shared_index(sp, id, exports)

\* the `match (source, dest)` of write_root_package_links (is_root) and of
\* write_package_links
LinkContents(is_root, source, dest, sp, vp, id, exports) ==
    IF source = dest
    THEN [ok |-> TRUE,
          contents |-> IF is_root THEN link_root_same_index(id, exports)
                       ELSE link_sibling_same_index(id, exports)]
    ELSE IF dest = "Server" THEN link_server_index(vp, id, exports)
    ELSE IF dest = "Shared" THEN link_shared_index(sp, id, exports)
    ELSE [ok |-> FALSE, error |-> "dev-from-non-dev"]

(***************************************************************************)
(* Installation orchestrator: InstallationContext::install and clean       *)
(***************************************************************************)

\* the handles of install's first loop, mutated: the closures are spawned but
\* handles.push is missing, so the join loop waits for none of them
Dispatched_unjoined(r, root) == << >>

\* the handles of install's first loop, mutated: the test against
\* root_package_id is missing
Dispatched_with_root(r, root) == InOrder(IdOrder, r.activated)

\* the packages the first loop of install spawns a closure for, in its order
Dispatched(r, root) == InOrder(IdOrder, r.activated \ {root})

\* the (dependent, list, alias, dependency) visits of install's second loop over
\* `activated`, in the order it makes them
RECURSIVE Flatten(_)
Flatten(seqs) == IF seqs = <<>> THEN <<>> ELSE Head(seqs) \o Flatten(Tail(seqs))

LinkCalls(r, id) ==
    Flatten([i \in 1..Len(RealmOrder) |->
        LET list == RealmOrder[i]
            deps == DependenciesOf(r, list)
        IN  IF id \in DOMAIN deps
            THEN LET aliases == InOrder(AliasOrder, DOMAIN deps[id])
                 IN  [k \in 1..Len(aliases) |->
                         [from |-> id, list |-> list, alias |-> aliases[k],
                          to |-> deps[id][aliases[k]]]]
            ELSE <<>>])

LinkPlan(r) ==
    LET ids == InOrder(IdOrder, r.activated)
    IN  Flatten([i \in 1..Len(ids) |-> LinkCalls(r, ids[i])])

\* the realm a dependent links from: the list's realm for the root
\* (write_root_package_links' root_realm), its origin realm otherwise
DependentRealm(r, e) ==
    IF e.from = idRoot THEN e.list ELSE r.metadata[e.from].origin_realm

\* base_path of write_root_package_links and of write_package_links
BasePath(r, e) ==
    IF e.from = idRoot THEN RealmDir(e.list)
    ELSE Append(RealmIndexDir(r.metadata[e.from].origin_realm),
                package_id_file_name(e.from))

\* base_path.join(format!("{}.lua", dep_name))
LinkPath(r, e) == Append(BasePath(r, e), e.alias \o ".lua")

\* install, up to the end of its first loop: every closure is spawned
Dispatch ==
    /\ pc = "idle"
    /\ handles' = Dispatched(resolved, idRoot)
    /\ unit' = [p \in resolved.activated \ {idRoot} |->
                   [at |-> "queued", exports |-> NewExtractTypesResult]]
    /\ types_for_package' = << >>
    /\ join_at' = 1
    /\ cursor' = 1
    /\ pc' = IF handles' = <<>> THEN "link" ELSE "join"
    /\ UNCHANGED << resolved, shared_path, server_path, error, dirs, unpacked, files,
                    parseVars,
                    earlier_tree >>

\* the closure, line 121: download_package succeeds or fails
Download(p) ==
    /\ pc \in {"join", "abort"}
    /\ p \in DOMAIN unit
    /\ unit[p].at = "queued"
    /\ \E ok \in BOOLEAN :
           unit' = [unit EXCEPT ![p].at = IF ok THEN "downloaded" ELSE "failed"]
    /\ UNCHANGED << resolved, shared_path, server_path, pc, error, handles, join_at,
                    types_for_package, cursor, dirs, unpacked, files, parseVars,
                    earlier_tree >>

\* the closure, lines 130-131, mutated: the error of unpack_into_path is dropped
WriteContents_ignores_unpack_failure(p) ==
    /\ pc \in {"join", "abort"}
    /\ p \in DOMAIN unit
    /\ unit[p].at = "downloaded"
    /\ LET path == ContentsPath(p, resolved.metadata[p].origin_realm)
       IN  \E outcome \in {"ok", "mkdir_failed", "unpack_failed"} :
               /\ dirs' = IF outcome = "mkdir_failed" THEN dirs
                          ELSE dirs \cup create_dir_all(path)
               /\ unpacked' = IF outcome = "ok" THEN unpacked \cup {path} ELSE unpacked
               /\ unit' = [unit EXCEPT ![p].at =
                              IF outcome = "mkdir_failed" THEN "failed" ELSE "written"]
    /\ UNCHANGED << resolved, shared_path, server_path, pc, error, handles, join_at,
                    types_for_package, cursor, files, parseVars,
                    earlier_tree >>

\* the closure, lines 130-131: write_contents creates the directory and unpacks
\* into it; create_dir_all may fail, unpack_into_path may fail
WriteContents(p) ==
    /\ pc \in {"join", "abort"}
    /\ p \in DOMAIN unit
    /\ unit[p].at = "downloaded"
    /\ LET path == ContentsPath(p, resolved.metadata[p].origin_realm)
       IN  \E outcome \in {"ok", "mkdir_failed", "unpack_failed"} :
               /\ dirs' = IF outcome = "mkdir_failed" THEN dirs
                          ELSE dirs \cup create_dir_all(path)
               /\ unpacked' = IF outcome = "ok" THEN unpacked \cup {path} ELSE unpacked
               /\ unit' = [unit EXCEPT ![p].at =
                              IF outcome = "ok" THEN "written" ELSE "failed"]
    /\ UNCHANGED << resolved, shared_path, server_path, pc, error, handles, join_at,
                    types_for_package, cursor, files, parseVars,
                    earlier_tree >>

\* the closure, lines 132-134: extract_types on the unpacked package
ExtractTypes(p) ==
    /\ pc \in {"join", "abort"}
    /\ p \in DOMAIN unit
    /\ unit[p].at = "written"
    /\ LET exported_types == ExtractedTypes[p]
       IN  unit' = [unit EXCEPT ![p] =
                       IF exported_types.panicked
                       THEN [at |-> "panicked", exports |-> NewExtractTypesResult]
                       ELSE [at |-> "done", exports |-> exported_types.statements]]
    /\ UNCHANGED << resolved, shared_path, server_path, pc, error, handles, join_at,
                    types_for_package, cursor, dirs, unpacked, files, parseVars,
                    earlier_tree >>

\* types_for_package.insert, mutated: the pair is dropped
Insert_dropped(types, package_id, exported_types) == types

\* types_for_package.insert(package_id, exported_types)
Insert(types, package_id, exported_types) == (package_id :> exported_types) @@ types

\* one iteration of install's join loop, lines 143-149: block on the next handle
JoinNext ==
    /\ pc = "join"
    /\ join_at <= Len(handles)
    /\ LET p == handles[join_at]
       IN  /\ unit[p].at \in {"done", "failed", "panicked"}
           /\ IF unit[p].at = "done"
              THEN /\ types_for_package' = Insert(types_for_package, p, unit[p].exports)
                   /\ join_at' = join_at + 1
                   /\ pc' = IF join_at = Len(handles) THEN "link" ELSE "join"
                   /\ error' = error
              ELSE /\ error' = IF unit[p].at = "failed" THEN "unit" ELSE "panic"
                   /\ pc' = "abort"
                   /\ UNCHANGED << types_for_package, join_at >>
    /\ UNCHANGED << resolved, shared_path, server_path, unit, handles, cursor, dirs,
                    unpacked, files, parseVars,
                    earlier_tree >>

\* install leaving with the error of line 146, mutated: it rolls back what the
\* closures wrote
Abort_rolls_back ==
    /\ pc = "abort"
    /\ \A p \in DOMAIN unit : unit[p].at \in {"queued", "done", "failed", "panicked"}
    /\ pc' = IF error = "panic" THEN "panic" ELSE "err"
    /\ dirs' = {}
    /\ unpacked' = {}
    /\ UNCHANGED << resolved, shared_path, server_path, error, unit, handles, join_at,
                    types_for_package, cursor, files, parseVars,
                    earlier_tree >>

\* install leaves with the error of line 146 once the runtime it drops has no
\* closure in flight
Abort ==
    /\ pc = "abort"
    /\ \A p \in DOMAIN unit : unit[p].at \in {"queued", "done", "failed", "panicked"}
    /\ pc' = IF error = "panic" THEN "panic" ELSE "err"
    /\ UNCHANGED << resolved, shared_path, server_path, error, unit, handles, join_at,
                    types_for_package, cursor, dirs, unpacked, files, parseVars,
                    earlier_tree >>

\* one iteration of the loop of write_root_package_links or write_package_links
\* (lines 339-355, 381-397), after the create_dir_all of its call; the unwrap of
\* types.get panics when the lookup has no entry.  fs::create_dir_all and
\* fs::write succeed here.
WriteLink ==
    /\ pc = "link"
    /\ cursor <= Len(LinkPlan(resolved))
    /\ LET e == LinkPlan(resolved)[cursor]
           dependencies_realm == resolved.metadata[e.to].origin_realm
           has_types == e.to \in DOMAIN types_for_package
           link == LinkContents(e.from = idRoot, DependentRealm(resolved, e),
                                dependencies_realm, shared_path, server_path, e.to,
                                types_for_package[e.to])
       IN  /\ dirs' = dirs \cup create_dir_all(BasePath(resolved, e))
           /\ IF ~has_types
              THEN /\ pc' = "panic"
                   /\ error' = "lookup"
                   /\ UNCHANGED << files, cursor >>
              ELSE IF link.ok
              THEN /\ files' = (LinkPath(resolved, e) :> link.contents) @@ files
                   /\ cursor' = cursor + 1
                   /\ UNCHANGED << pc, error >>
              ELSE /\ pc' = "err"
                   /\ error' = link.error
                   /\ UNCHANGED << files, cursor >>
    /\ UNCHANGED << resolved, shared_path, server_path, unit, handles, join_at,
                    types_for_package, unpacked, parseVars,
                    earlier_tree >>

\* install, lines 191-194: every link is written
Finish ==
    /\ pc = "link"
    /\ cursor > Len(LinkPlan(resolved))
    /\ pc' = "ok"
    /\ UNCHANGED << resolved, shared_path, server_path, error, unit, handles, join_at,
                    types_for_package, cursor, dirs, unpacked, files, parseVars,
                    earlier_tree >>

\* the directory tree install leaves: directories, unpacked packages, link files
Tree == [dirs |-> dirs, unpacked |-> unpacked, files |-> files]

\* the three realm roots, in the order clean removes them (lines 73-75)
Roots == << shared_dir, server_dir, dev_dir >>

\* `path` is `root` or lies under it
IsUnder(path, root) ==
    Len(path) >= Len(root) /\ SubSeq(path, 1, Len(root)) = root

\* fs::remove_dir_all(path) on `tree`: NotFound when the directory is absent,
\* another error when it is one of `denied`, else the tree without it
remove_dir_all(tree, path, denied) ==
    IF path \notin tree.dirs THEN [ok |-> FALSE, kind |-> "NotFound", tree |-> tree]
    ELSE IF path \in denied
    THEN [ok |-> FALSE, kind |-> "PermissionDenied", tree |-> tree]
    ELSE [ok |-> TRUE, kind |-> "none",
          tree |-> [dirs |-> {d \in tree.dirs : ~IsUnder(d, path)},
                    unpacked |-> {d \in tree.unpacked : ~IsUnder(d, path)},
                    files |-> [f \in {q \in DOMAIN tree.files : ~IsUnder(q, path)} |->
                                  tree.files[f]]]]

\* remove_ignore_not_found, mutated: NotFound is returned like any other error
remove_ignore_not_found_strict(tree, path, denied) ==
    LET removed == remove_dir_all(tree, path, denied)
    IN  [ok |-> removed.ok, tree |-> removed.tree]

\* remove_ignore_not_found (lines 63-71): every error but NotFound is returned
remove_ignore_not_found(tree, path, denied) ==
    LET removed == remove_dir_all(tree, path, denied)
    IN  IF ~removed.ok /\ removed.kind # "NotFound"
        THEN [ok |-> FALSE, tree |-> removed.tree]
        ELSE [ok |-> TRUE, tree |-> removed.tree]

\* clean (lines 62-78): the three removals in order, each `?` leaving at once
clean(tree, denied) ==
    LET first == remove_ignore_not_found(tree, Roots[1], denied)
        second == remove_ignore_not_found(first.tree, Roots[2], denied)
        third == remove_ignore_not_found(second.tree, Roots[3], denied)
    IN  IF ~first.ok THEN first
        ELSE IF ~second.ok THEN second
        ELSE third

\* a call of clean while no install runs; the process that called install has
\* ended, and what it held in memory with it
Clean ==
    /\ pc \in {"idle", "ok", "err", "panic"}
    /\ \E denied \in SUBSET {Roots[i] : i \in 1..3} :
           LET cleaned == clean(Tree, denied)
           IN  /\ dirs' = cleaned.tree.dirs
               /\ unpacked' = cleaned.tree.unpacked
               /\ files' = cleaned.tree.files
               /\ pc' = IF cleaned.ok THEN "idle" ELSE "err"
               /\ error' = IF cleaned.ok THEN "none" ELSE "clean"
    /\ earlier_tree' = IF pc = "ok" THEN Some(Tree) ELSE earlier_tree
    /\ unit' = << >>
    /\ handles' = << >>
    /\ join_at' = 1
    /\ types_for_package' = << >>
    /\ cursor' = 1
    /\ UNCHANGED << resolved, shared_path, server_path, parseVars >>

(***************************************************************************)
(* Specifications                                                          *)
(***************************************************************************)

\* the most dependency edges of a resolution graph
MaxEdges == 2

\* aliases are arbitrary names: a dependency map that uses the second alias
\* uses the first as well
UsesAliasesInOrder(g) ==
    \A e \in g : e.alias = AliasOrder[2] =>
        \E x \in g : x.from = e.from /\ x.list = e.list /\ x.alias = AliasOrder[1]

\* the resolution graphs over `packages`
Graphs(packages) ==
    {g \in SubsetsUpTo(EdgeUniverse(packages), MaxEdges) :
        IsFunctional(g) /\ UsesAliasesInOrder(g)}

\* the packages a graph activates besides the root
Mentioned(g) == ({e.from : e \in g} \cup {e.to : e \in g}) \ {idRoot}

\* the [place] settings of the manifest: shared-packages and server-packages
SharedPathOptions == {None, Some("game.ReplicatedStorage.Packages")}
ServerPathOptions == {None, Some("game.ServerScriptService.Packages")}

\* no text is being parsed
ParseIdle ==
    /\ lua_code = [segments |-> <<>>, text |-> <<>>]
    /\ stripped = None
    /\ parsed = None
    /\ lexer = None
    /\ parser = None

\* the resolution graphs in which the root depends on `first` and every other
\* edge is a dependency of `first` on idB or idC
GraphsBelow(first) ==
    {{[from |-> idRoot, list |-> "Shared", alias |-> AliasOrder[1], to |-> first]} \cup g :
        g \in {h \in Graphs({idA, idB, idC}) : \A e \in h : e.from = first}}

\* the state in which install is called on a fresh project directory, for a
\* resolution graph of `graphs`
InitInstall(graphs) ==
    /\ \E g \in graphs :
           \E realms \in [Mentioned(g) -> Realm] : resolved = ResolveOf(g, realms)
    /\ shared_path \in SharedPathOptions
    /\ server_path \in ServerPathOptions
    /\ pc = "idle"
    /\ error = "none"
    /\ unit = << >>
    /\ handles = << >>
    /\ join_at = 1
    /\ types_for_package = << >>
    /\ cursor = 1
    /\ dirs = {}
    /\ unpacked = {}
    /\ files = << >>
    /\ earlier_tree = None
    /\ ParseIdle

\* install over a registry of two packages
Init == InitInstall(Graphs({idA, idB}))

\* install over three packages: the root depends on idA, which has the other
\* dependencies
InitWide == InitInstall(GraphsBelow(idA))

\* the packages whose contents make extract_types give up: no descriptor, an
\* unreadable one, one that is no JSON, one with no tree, no entry file, an
\* unreadable entry file
SoftPackages == {idB, idD, idE, idF, idG, idH}

\* the resolution graphs in which the root has one dependency, on such a package
SoftGraphs ==
    {{[from |-> idRoot, list |-> list, alias |-> AliasOrder[1], to |-> p]} :
        list \in Realm, p \in SoftPackages}

\* install of one package that extract_types gives up on
InitSoft == InitInstall(SoftGraphs)

Next ==
    \/ Dispatch
    \/ \E p \in Registry : Download(p)
    \/ \E p \in Registry : WriteContents(p)
    \/ \E p \in Registry : ExtractTypes(p)
    \/ JoinNext
    \/ Abort
    \/ WriteLink
    \/ Finish

Spec == Init /\ [][Next]_vars

SpecWide == InitWide /\ [][Next]_vars

SpecSoft == InitSoft /\ [][Next]_vars

\* the resolution graphs over two versions of one package
VersionGraphs == Graphs({idA, idA2})

\* install of a project that has two versions of one package among its
\* dependencies
InitVersions == InitInstall(VersionGraphs)

SpecVersions == InitVersions /\ [][Next]_vars

\* the resolution graphs over idA and idB whose edges use one alias and the
\* shared and server lists
CleanGraphs ==
    {g \in Graphs({idA, idB}) :
        \A e \in g : e.alias = AliasOrder[1] /\ e.list \in {"Shared", "Server"}}

\* install and clean called in turn on one project directory
InitClean == InitInstall(CleanGraphs)

NextClean ==
    \/ Next
    \/ Clean

SpecClean == InitClean /\ [][NextClean]_vars

(***************************************************************************)
(* Properties of install                                                   *)
(***************************************************************************)

\* C1: under every interleaving of the units, the link phase is not entered
\* and no link file exists until every spawned unit has completed and its
\* (identity, extraction result) pair is in the lookup.
C1_JoinBarrier ==
    (pc = "link" \/ files # << >>) =>
        \A p \in resolved.activated \ {idRoot} :
            /\ p \in DOMAIN unit
            /\ unit[p].at = "done"
            /\ p \in DOMAIN types_for_package
            /\ types_for_package[p] = unit[p].exports

\* two units were joined and a link file is written
C1_BarrierPassed == Len(handles) = 2 /\ files # << >>

\* C2: in the link phase the lookup has an entry for the dependency of every
\* edge of every activated package, and the lookup made for an edge never fails.
C2_LookupTotal ==
    /\ pc = "link" => \A e \in Edges(resolved) : e.to \in DOMAIN types_for_package
    /\ error # "lookup"

\* the link phase has made the lookups of two edges
C2_LookupsMade == pc = "link" /\ cursor = 3 /\ Len(handles) = 2

\* C3: once a unit has failed to fetch or unpack, install never enters the
\* link phase and writes no link file, it can only go on to return the error,
\* and what the units unpacked stays on disk, also when install has returned.
C3_UnitFailureFailsInstall ==
    LET failed == {p \in DOMAIN unit : unit[p].at = "failed"}
        wrote == {p \in DOMAIN unit : unit[p].at \in {"written", "done", "panicked"}}
    IN  /\ failed # {} =>
               /\ pc \in {"join", "abort", "err"}
               /\ pc = "err" => error = "unit"
               /\ pc # "err" => ENABLED (JoinNext \/ Abort \/ \E p \in Registry :
                                    Download(p) \/ WriteContents(p) \/ ExtractTypes(p))
               /\ files = << >>
        /\ \A p \in wrote :
               LET path == ContentsPath(p, resolved.metadata[p].origin_realm)
               IN  path \in unpacked /\ create_dir_all(path) \subseteq dirs

\* install has returned the error of a failed unit, and another unit's package
\* is on disk
C3_FailedWithPackageOnDisk ==
    /\ pc = "err"
    /\ error = "unit"
    /\ \E p \in DOMAIN unit :
           /\ unit[p].at = "done"
           /\ ContentsPath(p, resolved.metadata[p].origin_realm) \in unpacked

\* C4: an edge from a Shared or Server dependent (root or not) to a Dev-realm
\* dependency never gets a link file and install never succeeds with it; the
\* step that reaches such an edge fails with the realm-violation error and
\* writes nothing.
C4_DevRealmViolation ==
    /\ [](\A e \in Edges(resolved) :
              (/\ resolved.metadata[e.to].origin_realm = "Dev"
               /\ DependentRealm(resolved, e) # "Dev")
              => pc # "ok" /\ LinkPath(resolved, e) \notin DOMAIN files)
    /\ [][(/\ pc = "link"
           /\ cursor <= Len(LinkPlan(resolved))
           /\ resolved.metadata[LinkPlan(resolved)[cursor].to].origin_realm = "Dev"
           /\ DependentRealm(resolved, LinkPlan(resolved)[cursor]) # "Dev")
          => pc' = "err" /\ error' = "dev-from-non-dev" /\ files' = files]_vars

\* install has failed with the realm-violation error on its second edge
C4_ViolationReported ==
    pc = "err" /\ error = "dev-from-non-dev" /\ cursor = 2 /\ files # << >>

\* C5: the step that links a cross-realm edge into the Server (resp. Shared)
\* realm writes a file requiring <root>._Index[<pkg>][<name>] when
\* server-packages (resp. shared-packages) is set, and otherwise fails with the
\* error naming that setting and writes nothing.
C5_CrossRealmLink ==
    [][LET e == LinkPlan(resolved)[cursor]
           dest == resolved.metadata[e.to].origin_realm
           root == IF dest = "Server" THEN server_path ELSE shared_path
           setting == IF dest = "Server" THEN "server-packages" ELSE "shared-packages"
           required == root[1] \o "._Index[\"" \o e.to.scope \o "_" \o e.to.name \o "@"
                           \o e.to.version \o "\"][\"" \o e.to.name \o "\"]"
           forwarding == format_forwarding_statements(types_for_package[e.to], "MODULE")
       IN  (/\ pc = "link"
            /\ cursor <= Len(LinkPlan(resolved))
            /\ dest \in {"Server", "Shared"}
            /\ dest # DependentRealm(resolved, e))
           => IF root = None
              THEN pc' = "err" /\ error' = setting /\ files' = files
              ELSE /\ pc' = "link"
                   /\ LinkPath(resolved, e) \in DOMAIN files'
                   /\ files'[LinkPath(resolved, e)] \in
                          {"return require(" \o required \o ")\n",
                           "local MODULE = require(" \o required \o ")\n" \o forwarding
                               \o "\nreturn MODULE\n"}]_vars

\* a cross-realm edge into the Shared realm was linked and the next, into the
\* Server realm, failed for the missing setting
C5_LinkedThenUnconfigured ==
    /\ pc = "err"
    /\ error = "server-packages"
    /\ cursor = 2
    /\ LET e == LinkPlan(resolved)[1]
       IN  /\ resolved.metadata[e.to].origin_realm = "Shared"
           /\ DependentRealm(resolved, e) # "Shared"
           /\ LinkPath(resolved, e) \in DOMAIN files

\* C6: after a successful install every edge of the three dependency lists has
\* its file <alias>.lua in the dependent's directory, and that file requires
\* the edge's dependency.
C6_OneLinkPerEdge ==
    pc = "ok" =>
        \A e \in Edges(resolved) :
            /\ LinkPath(resolved, e) \in DOMAIN files
            /\ files[LinkPath(resolved, e)] \in
                   {LinkText(prefix \o IndexSlot(e.to), types_for_package[e.to]) :
                        prefix \in {"script.Parent._Index", "script.Parent.Parent"}
                            \cup {o[1] \o "._Index" :
                                    o \in {shared_path, server_path} \ {None}}}

\* C7: every link file, in each of the four forms, is the single line
\* `return require(<path>)` when the dependency's extraction result is empty,
\* and otherwise `local MODULE = require(<path>)`, one forwarding line per
\* statement of the result, and `return MODULE`.
C7_LinkContent ==
    LET RECURSIVE Lines(_)
        Lines(statements) ==
            IF statements = << >> THEN ""
            ELSE to_forwarding_statement(Head(statements), "MODULE") \o "\n"
                     \o Lines(Tail(statements))
        Required(e) ==
            LET source == DependentRealm(resolved, e)
                dest == resolved.metadata[e.to].origin_realm
                slot == "[\"" \o package_id_file_name(e.to) \o "\"][\"" \o e.to.name \o "\"]"
            IN  IF source = dest
                THEN (IF e.from = idRoot THEN "script.Parent._Index"
                      ELSE "script.Parent.Parent") \o slot
                ELSE IF dest = "Shared" THEN shared_path[1] \o "._Index" \o slot
                ELSE server_path[1] \o "._Index" \o slot
        Content(e) ==
            IF unit[e.to].exports = << >>
            THEN "return require(" \o Required(e) \o ")\n"
            ELSE "local MODULE = require(" \o Required(e) \o ")\n"
                     \o Lines(unit[e.to].exports) \o "return MODULE\n"
    IN  \A path \in DOMAIN files :
            \E e \in Edges(resolved) :
                LinkPath(resolved, e) = path /\ files[path] = Content(e)

\* an install has written one link to a package that exports types and one to
\* a package that exports none
C7_BothShapesWritten ==
    /\ pc = "ok"
    /\ \E e1, e2 \in Edges(resolved) :
           /\ types_for_package[e1.to] # << >>
           /\ types_for_package[e2.to] = << >>
           /\ LinkPath(resolved, e1) \in DOMAIN files
           /\ LinkPath(resolved, e2) \in DOMAIN files
           /\ LinkPath(resolved, e1) # LinkPath(resolved, e2)

\* C15: extract_types gives the empty result for a package with no
\* descriptor, an unreadable or invalid descriptor, no tree, no entry file or
\* an unreadable entry file; the unit of such a package ends done with that
\* result whenever it reaches extract_types, and an install that succeeds has
\* written the one-line link `return require(<path>)` for it.
C15_SoftDegradation ==
    /\ [](/\ \A p \in SoftPackages :
                 extract_types(PackageContents(p))
                     = [statements |-> << >>, panicked |-> FALSE]
          /\ \A p \in DOMAIN unit : unit[p].at # "panicked"
          /\ pc # "panic"
          /\ pc = "ok" =>
                 \A e \in Edges(resolved) :
                     /\ LinkPath(resolved, e) \in DOMAIN files
                     /\ files[LinkPath(resolved, e)] \in
                            {"return require(" \o prefix \o "[\""
                                 \o package_id_file_name(e.to) \o "\"][\"" \o e.to.name
                                 \o "\"])\n" :
                               prefix \in {"script.Parent._Index"} \cup
                                   {o[1] \o "._Index" :
                                       o \in {shared_path, server_path} \ {None}}})
    /\ [][\A p \in DOMAIN unit :
              (unit[p].at = "written" /\ unit'[p].at # "written")
              => unit'[p] = [at |-> "done", exports |-> << >>]]_vars

\* an install of the package with the unreadable entry file has succeeded
C15_InstalledWithoutTypes ==
    /\ pc = "ok"
    /\ idH \in DOMAIN unit
    /\ unit[idH] = [at |-> "done", exports |-> << >>]
    /\ files # << >>

\* C16: clean deletes the three realm roots and succeeds whichever of them
\* are absent; cleaning twice leaves what cleaning once leaves; clean can be
\* called after an install that succeeded, failed or panicked, and after the
\* clean that succeeds nothing of the tree is left.
C16_CleanIdempotent ==
    LET once == clean(Tree, {})
        twice == clean(once.tree, {})
    IN  /\ once.ok
        /\ \A i \in 1..3 :
               /\ \A d \in once.tree.dirs \cup once.tree.unpacked :
                      ~IsUnder(d, Roots[i])
               /\ \A f \in DOMAIN once.tree.files : ~IsUnder(f, Roots[i])
        /\ twice = once
        /\ pc \in {"ok", "err", "panic"} => ENABLED (Clean /\ pc' = "idle")
        /\ pc = "idle" => dirs = {} /\ unpacked = {} /\ files = << >>

\* a finished install was cleaned away, and the retry has failed with a
\* package on disk and the server root absent
C16_CleanedThenFailed ==
    /\ earlier_tree # None
    /\ earlier_tree[1].files # << >>
    /\ pc = "err"
    /\ error = "unit"
    /\ unpacked # {}
    /\ server_dir \notin dirs

\* C17: under every interleaving of the units, the tree an install leaves
\* after a clean is the tree the earlier clean-then-install run left.
C17_SameTree ==
    pc = "ok" /\ earlier_tree # None => Tree = earlier_tree[1]

\* the second install of two packages has succeeded
C17_InstalledAgain ==
    /\ pc = "ok"
    /\ earlier_tree # None
    /\ Len(handles) = 2
    /\ files # << >>
    /\ unpacked # {}

\* C22: the loop iteration that reaches an edge whose dependent realm (the
\* realm of the list for the root, the origin realm for another dependent) is
\* the dependency's origin realm succeeds whether or not shared-packages and
\* server-packages are set, and the file it writes requires
\* script.Parent._Index["scope_name@version"]["name"] for the root and
\* script.Parent.Parent["scope_name@version"]["name"] for another dependent.
C22_SameRealmLink ==
    [][pc = "link" /\ cursor <= Len(LinkPlan(resolved)) =>
          LET e == LinkPlan(resolved)[cursor]
              dependent_realm ==
                  IF e.from = idRoot THEN e.list
                  ELSE resolved.metadata[e.from].origin_realm
              slot == "[\"" \o e.to.scope \o "_" \o e.to.name \o "@" \o e.to.version
                          \o "\"][\"" \o e.to.name \o "\"]"
              path == (IF e.from = idRoot THEN "script.Parent._Index"
                       ELSE "script.Parent.Parent") \o slot
              lines == format_forwarding_statements(types_for_package[e.to], "MODULE")
          IN  dependent_realm = resolved.metadata[e.to].origin_realm =>
                  /\ pc' = "link"
                  /\ error' = error
                  /\ cursor' = cursor + 1
                  /\ LinkPath(resolved, e) \in DOMAIN files'
                  /\ files'[LinkPath(resolved, e)] \in
                         {"return require(" \o path \o ")\n",
                          "local MODULE = require(" \o path \o ")\n" \o lines
                              \o "\nreturn MODULE\n"}]_vars

\* with neither setting present an install has written a link of the root and
\* a link of another dependent, each into the dependent's own realm
C22_BothLinkedUnconfigured ==
    /\ pc = "ok"
    /\ shared_path = None
    /\ server_path = None
    /\ \E e1, e2 \in Edges(resolved) :
           /\ e1.from = idRoot
           /\ e2.from # idRoot
           /\ LinkPath(resolved, e1) \in DOMAIN files
           /\ LinkPath(resolved, e2) \in DOMAIN files

\* C23: once install has run its first loop there is exactly one handle, and
\* one unit, for every activated package but the root and none for the root;
\* once the join loop has passed every handle, the lookup's keys are the
\* activated packages but the root.
C23_OneUnitPerPackage ==
    /\ pc # "idle" =>
           /\ \A p \in resolved.activated \ {idRoot} :
                  Cardinality({i \in 1..Len(handles) : handles[i] = p}) = 1
           /\ \A i \in 1..Len(handles) :
                  handles[i] \in resolved.activated /\ handles[i] # idRoot
           /\ DOMAIN unit = resolved.activated \ {idRoot}
    /\ (pc \in {"link", "ok"} \/ (pc # "idle" /\ join_at > Len(handles))) =>
           DOMAIN types_for_package = resolved.activated \ {idRoot}

\* both versions of the package were dispatched and joined
C23_TwoJoined ==
    /\ pc = "link"
    /\ handles = << idA, idA2 >>
    /\ DOMAIN types_for_package = {idA, idA2}

\* the path install's closure passes to extract_types for a package: the
\* directory write_contents has unpacked it into
UnpackDirectory(p) == ContentsPath(p, resolved.metadata[p].origin_realm)

\* the names of the statements of an extraction result
StatementNames(exports) == [i \in 1..Len(exports) |-> exports[i].name]

\* C27: two dispatched units never have the same unpack directory, nor one
\* inside the other's, two versions of one package in one realm included;
\* every unpacked directory on disk is the directory of exactly one unit, which
\* has written it; a step of a unit writes only into that unit's directory and
\* its ancestors and changes no other unit; the extraction result of a unit
\* that is done holds the types of its own package.
C27_DisjointUnpackDirectories ==
    /\ [](/\ \A p, q \in DOMAIN unit :
                 p # q => /\ ~IsUnder(UnpackDirectory(p), UnpackDirectory(q))
                          /\ UnpackDirectory(p) =
                                 << (IF resolved.metadata[p].origin_realm = "Shared"
                                     THEN "Packages"
                                     ELSE IF resolved.metadata[p].origin_realm = "Server"
                                     THEN "ServerPackages" ELSE "DevPackages"),
                                    "_Index",
                                    p.scope \o "_" \o p.name \o "@" \o p.version,
                                    p.name >>
          /\ \A path \in unpacked :
                 Cardinality({p \in DOMAIN unit :
                                  /\ UnpackDirectory(p) = path
                                  /\ unit[p].at \in {"written", "done", "panicked"}}) = 1
          /\ idA \in DOMAIN unit /\ unit[idA].at = "done" =>
                 StatementNames(unit[idA].exports) = << <<"M", "a", "p">>, <<"I", "d">> >>
          /\ idA2 \in DOMAIN unit /\ unit[idA2].at = "done" =>
                 StatementNames(unit[idA2].exports) = << <<"P">> >>)
    /\ [][\A p \in DOMAIN unit :
              p \in DOMAIN unit' /\ unit'[p] # unit[p] =>
                  /\ \A q \in DOMAIN unit \ {p} : unit'[q] = unit[q]
                  /\ unpacked' \ unpacked \subseteq {UnpackDirectory(p)}
                  /\ \A d \in dirs' \ dirs : IsUnder(UnpackDirectory(p), d)]_vars

\* the units of the two versions, of one origin realm, have both unpacked and
\* extracted
C27_TwoVersionsOnDisk ==
    /\ DOMAIN unit = {idA, idA2}
    /\ resolved.metadata[idA].origin_realm = resolved.metadata[idA2].origin_realm
    /\ unit[idA].at = "done"
    /\ unit[idA2].at = "done"
    /\ Cardinality(unpacked) = 2

(***************************************************************************)
(* parse_types on source text                                              *)
(***************************************************************************)

\* the most segments of a source text
MaxSegs == 2

\* `export type Fake = 1`, the declaration the literals below enclose
declFake == chExportType \o <<"F", "a", "k", "e", " ", "=", " ", "1">>

\* export type Real = number
declReal ==
    <<"e", "x", "p", "o", "r", "t", " ", "t", "y", "p", "e", " ", "R", "e", "a", "l",
      " ", "=", " ", "n", "u", "m", "b", "e", "r", "\n">>

\* type Helper = {}
declHelper ==
    <<"t", "y", "p", "e", " ", "H", "e", "l", "p", "e", "r", " ", "=", " ", "{", "}",
      "\n">>

\* export type X<T = Helper> = {}
declX ==
    <<"e", "x", "p", "o", "r", "t", " ", "t", "y", "p", "e", " ", "X", "<", "T", " ",
      "=", " ", "H", "e", "l", "p", "e", "r", ">", " ", "=", " ", "{", "}", "\n">>

\* export type Map<K, V = string> = {}
declMap ==
    <<"e", "x", "p", "o", "r", "t", " ", "t", "y", "p", "e", " ", "M", "a", "p", "<",
      "K", ",", " ", "V", " ", "=", " ", "s", "t", "r", "i", "n", "g", ">", " ", "=",
      " ", "{", "}", "\n">>

\* export type Pack<T...> = () -> T...
declPack ==
    <<"e", "x", "p", "o", "r", "t", " ", "t", "y", "p", "e", " ", "P", "a", "c", "k",
      "<", "T", ".", ".", ".", ">", " ", "=", " ", "(", ")", " ", "-", ">", " ", "T",
      ".", ".", ".", "\n">>

\* local exports = {}
stmtExports ==
    <<"l", "o", "c", "a", "l", " ", "e", "x", "p", "o", "r", "t", "s", " ", "=", " ",
      "{", "}", "\n">>

\* Source text is built from whole Luau tokens and statements: each segment is
\* either one complete comment or string literal ("literal"; `fake` says it
\* encloses declFake) or code outside any literal ("code").
Literal(fake, text) == [kind |-> "literal", fake |-> fake, text |-> text]
Code(text) == [kind |-> "code", fake |-> FALSE, text |-> text]

Segments ==
    << \* -- export type Fake = 1
       Literal(TRUE, <<"-", "-", " ">> \o declFake \o <<"\n">>),
       \* --[[ export type Fake = 1 ]]
       Literal(TRUE, <<"-", "-", "[", "[", " ">> \o declFake \o <<" ", "]", "]">>),
       \* --[=[ export type Fake = 1 ]=]
       Literal(TRUE, <<"-", "-", "[", "=", "[", " ">> \o declFake \o <<" ", "]", "=", "]">>),
       \* "export type Fake = 1"
       Literal(TRUE, <<"\"">> \o declFake \o <<"\"">>),
       \* 'export type Fake = 1'
       Literal(TRUE, <<"'">> \o declFake \o <<"'">>),
       \* a template string holding export type Fake = 1
       Literal(TRUE, <<Backtick>> \o declFake \o <<Backtick>>),
       \* [[ export type Fake = 1 ]]
       Literal(TRUE, <<"[", "[", " ">> \o declFake \o <<" ", "]", "]">>),
       \* [=[ export type Fake = 1 ]=]
       Literal(TRUE, <<"[", "=", "[", " ">> \o declFake \o <<" ", "]", "=", "]">>),
       \* "a\"b": a string holding an escaped quote
       Literal(FALSE, <<"\"", "a", "\\", "\"", "b", "\"">>),
       \* "\\": a string holding one escaped backslash
       Literal(FALSE, <<"\"", "\\", "\\", "\"">>),
       \* [[=]]: a long string holding an equals sign
       Literal(FALSE, <<"[", "[", "=", "]", "]">>),
       Code(declReal),
       \* export type Box<T> = T
       Code(chExportType \o <<"B", "o", "x", "<", "T", ">", " ", "=", " ", "T", "\n">>),
       \* local x = 1
       Code(<<"l", "o", "c", "a", "l", " ", "x", " ", "=", " ", "1", "\n">>),
       \* export type F<T = {}> = T
       Code(chExportType \o <<"F", "<", "T", " ", "=", " ", "{", "}", ">", " ", "=", " ",
                              "T", "\n">>),
       \* y = typeA < (x)
       Code(<<"y", " ", "=", " ", "t", "y", "p", "e", "A", " ", "<", " ", "(", "x", ")",
              "\n">>),
       Code(declHelper),
       Code(declX),
       Code(declMap),
       Code(declPack),
       Code(stmtExports) >>

\* the text of a sequence of segments
SourceText(segments) ==
    Flatten([i \in 1..Len(segments) |-> Segments[segments[i]].text])

\* the sequences of at most MaxSegs segments
SegmentChoices ==
    UNION {[1..n -> 1..Len(Segments)] : n \in 0..MaxSegs}

\* install is not running
InstallIdle ==
    /\ resolved = ResolveOf({}, << >>)
    /\ shared_path = None
    /\ server_path = None
    /\ pc = "idle"
    /\ error = "none"
    /\ unit = << >>
    /\ handles = << >>
    /\ join_at = 1
    /\ types_for_package = << >>
    /\ cursor = 1
    /\ dirs = {}
    /\ unpacked = {}
    /\ files = << >>
    /\ earlier_tree = None

\* parse_types is called on a source text
InitParse ==
    /\ InstallIdle
    /\ \E segments \in SegmentChoices :
           lua_code = [segments |-> segments, text |-> SourceText(segments)]
    /\ stripped = None
    /\ parsed = None
    /\ lexer = None
    /\ parser = None

\* parse_types, line 291: the text is stripped of comments and strings
StripCommentsAndStrings ==
    /\ stripped = None
    /\ stripped' = Some(strip_comments_and_strings(lua_code.text))
    /\ UNCHANGED << installVars, lua_code, parsed, lexer, parser >>

\* parse_types, lines 293-424: the export statements of the stripped text
ParseTypes ==
    /\ stripped # None
    /\ ~stripped[1].panicked
    /\ parsed = None
    /\ parsed' = Some(parse_stripped(stripped[1].output))
    /\ UNCHANGED << installVars, lua_code, stripped, lexer, parser >>

NextParse ==
    \/ StripCommentsAndStrings
    \/ ParseTypes

SpecParse == InitParse /\ [][NextParse]_vars

\* the name a segment declares a type under, exported or not, in code or
\* inside a literal; << >> for a segment that declares none
DeclaredName(i) ==
    IF Segments[i].fake THEN <<"F", "a", "k", "e">>
    ELSE IF i = 12 THEN <<"R", "e", "a", "l">>
    ELSE IF i = 13 THEN <<"B", "o", "x">>
    ELSE IF i = 15 THEN <<"F">>
    ELSE IF i = 17 THEN <<"H", "e", "l", "p", "e", "r">>
    ELSE IF i = 18 THEN <<"X">>
    ELSE IF i = 19 THEN <<"M", "a", "p">>
    ELSE IF i = 20 THEN <<"P", "a", "c", "k">>
    ELSE << >>

\* the forwarding line of the exported declaration of a segment
ForwardingLine(i) ==
    IF i = 12 THEN "export type Real = MODULE.Real"
    ELSE IF i = 13 THEN "export type Box<T> = MODULE.Box<T>"
    ELSE IF i = 18 THEN "export type X<T = Helper> = MODULE.X<T>"
    ELSE IF i = 19 THEN "export type Map<K, V = string> = MODULE.Map<K, V>"
    ELSE "export type Pack<T...> = MODULE.Pack<T...>"

\* the segments that are an exported declaration the parser reads in full
ExportedDeclarations == {12, 13, 18, 19, 20}

\* a is b with members left out
RECURSIVE IsSubsequence(_, _)
IsSubsequence(a, b) ==
    IF a = << >> THEN TRUE
    ELSE IF b = << >> THEN FALSE
    ELSE IF Head(a) = Head(b) THEN IsSubsequence(Tail(a), Tail(b))
    ELSE IsSubsequence(a, Tail(b))

\* C26: the names of the statements of a result stand in the order in which
\* the source declares them; for a text of exported declarations and plain
\* statements the statements are those declarations in source order, and the
\* forwarding text is their forwarding lines in that order, one per line.
C26_DeclarationOrder ==
    (parsed # None /\ ~parsed[1].panicked) =>
        LET statements == parsed[1].statements
            names == [i \in 1..Len(statements) |-> statements[i].name]
            declaring == SelectSeq(lua_code.segments,
                                   LAMBDA i : DeclaredName(i) # << >>)
            exporting == SelectSeq(lua_code.segments,
                                   LAMBDA i : i \in ExportedDeclarations)
        IN  /\ IsSubsequence(names,
                             [k \in 1..Len(declaring) |-> DeclaredName(declaring[k])])
            /\ (\A k \in 1..Len(lua_code.segments) :
                    lua_code.segments[k] \in ExportedDeclarations \cup {14})
               => /\ names = [k \in 1..Len(exporting) |-> DeclaredName(exporting[k])]
                  /\ format_forwarding_statements(statements, "MODULE")
                         = Join([k \in 1..Len(exporting) |-> ForwardingLine(exporting[k])],
                                "\n")

\* parse_types has run on the declaration of Map followed by that of Real
C26_TwoDeclarationsParsed ==
    /\ parsed # None
    /\ ~parsed[1].panicked
    /\ lua_code.segments = <<19, 12>>
    /\ Len(parsed[1].statements) = 2
    /\ parsed[1].statements[1].name = <<"M", "a", "p">>

(***************************************************************************)
(* The two scanning loops, iteration by iteration                          *)
(***************************************************************************)

\* the most tokens of a source text put together from Tokens
MaxTokens == 3

\* the most segments of a source text put together from Segments for the loops
MaxScanSegs == 1

\* openers and closers of long brackets of several depths, quotes, escaped
\* quotes, a comment opener, a line end, an equals sign and plain code
Tokens ==
    << <<"[", "=", "=", "[">>,
       <<"]", "=", "]">>,
       <<"]", "]">>,
       <<"]", "=", "=", "=", "]">>,
       <<"]", "=", "=", "]">>,
       <<"a">>,
       <<"-", "-", "[", "=", "[">>,
       <<"[", "[">>,
       <<"\"">>,
       <<"'">>,
       <<Backtick>>,
       <<"\\", "\"">>,
       <<"\\", "'">>,
       <<"\\", Backtick>>,
       <<"\\">>,
       <<"-", "-">>,
       <<"\n">>,
       <<"=">> >>

\* the text of a sequence of tokens
TokenText(tokens) == Flatten([i \in 1..Len(tokens) |-> Tokens[tokens[i]]])

\* the sequences of at most MaxTokens tokens
TokenChoices == UNION {[1..n -> 1..Len(Tokens)] : n \in 0..MaxTokens}

\* the sequences of at most MaxScanSegs segments
ScanSegmentChoices == UNION {[1..n -> 1..Len(Segments)] : n \in 0..MaxScanSegs}

\* texts in which the parser changes state at a position it has not moved
\* from: an `export` that no `type` follows, a `type` that no name follows, an
\* `export type` at the end of the text
ParserTexts ==
    { <<"e", "x", "p", "o", "r", "t", " ", "t", "o", "t", "a", "l", " ", "=", " ", "1",
        "\n">>,
      <<"l", "o", "c", "a", "l", " ", "t", "y", "p", "e", " ", "=", " ", "1", "\n">>,
      <<"e", "x", "p", "o", "r", "t", " ", "t", "y", "p", "e", " ", "=", " ", "t", "y",
        "p", "e">>,
      <<"e", "x", "p", "o", "r", "t", " ", "t", "y", "p", "e">> }

\* parse_types is called on a source text and strip_comments_and_strings has
\* set up its locals (lines 56-58)
InitScan ==
    /\ InstallIdle
    /\ \/ \E tokens \in TokenChoices :
              lua_code = [segments |-> << >>, text |-> TokenText(tokens)]
       \/ \E text \in ParserTexts : lua_code = [segments |-> << >>, text |-> text]
       \/ \E segments \in ScanSegmentChoices :
              lua_code = [segments |-> segments, text |-> SourceText(segments)]
    /\ stripped = None
    /\ parsed = None
    /\ lexer = Some(LexInit)
    /\ parser = None

\* one iteration of the loop of strip_comments_and_strings (lines 59-172)
LexIterate ==
    /\ stripped = None
    /\ ~lexer[1].panicked
    /\ lexer[1].index < Len(lua_code.text)
    /\ lexer' = Some(LexStep(lua_code.text, lexer[1]))
    /\ UNCHANGED << installVars, lua_code, stripped, parsed, parser >>

\* strip_comments_and_strings leaves its loop and returns output (line 174), or
\* an assert! of it has failed; parse_types sets up its locals (lines 294-299)
LexReturn ==
    /\ stripped = None
    /\ lexer[1].panicked \/ lexer[1].index >= Len(lua_code.text)
    /\ stripped' = Some([output |-> lexer[1].output, panicked |-> lexer[1].panicked])
    /\ parser' = IF lexer[1].panicked THEN None ELSE Some(ParseInit)
    /\ UNCHANGED << installVars, lua_code, parsed, lexer >>

\* one iteration of the loop of parse_types (lines 300-409)
ParseIterate ==
    /\ parser # None
    /\ parsed = None
    /\ ~parser[1].panicked
    /\ ~parser[1].done
    /\ parser[1].index < Len(stripped[1].output)
    /\ parser' = Some(ParseStep(stripped[1].output, parser[1]))
    /\ UNCHANGED << installVars, lua_code, stripped, parsed, lexer >>

\* parse_types leaves its loop, clears the private defaults and returns
\* (lines 411-424), or an assert! of it has failed
ParseReturn ==
    /\ parser # None
    /\ parsed = None
    /\ \/ parser[1].panicked
       \/ parser[1].done
       \/ parser[1].index >= Len(stripped[1].output)
    /\ parsed' = Some([statements |->
                          IF parser[1].panicked THEN << >>
                          ELSE ClearPrivateDefaults(parser[1].result,
                                                    parser[1].non_exported_types),
                       panicked |-> parser[1].panicked])
    /\ UNCHANGED << installVars, lua_code, stripped, lexer, parser >>

NextScan ==
    \/ LexIterate
    \/ LexReturn
    \/ ParseIterate
    \/ ParseReturn

SpecScan == InitScan /\ [][NextScan]_vars

\* parse_types runs in one thread that nothing suspends: an iteration that can
\* be made is made
SpecScanFair == SpecScan /\ WF_vars(NextScan)

(***************************************************************************)
(* Properties of parse_types                                               *)
(***************************************************************************)

\* C8: a declaration `export type Fake` that lies wholly inside a comment or a
\* string literal of the source text yields no statement of parse_types.
C8_LiteralsYieldNoStatement ==
    parsed # None =>
        \A i \in 1..Len(parsed[1].statements) :
            parsed[1].statements[i].name # <<"F", "a", "k", "e">>

\* C9: strip_comments_and_strings fails on no text: it always yields an output.
C9_StripNeverFails == stripped # None => ~stripped[1].panicked

\* C10: the parser hard-fails on no stripped text: no assertion of it fails.
C10_ParserNeverFails == parsed # None => ~parsed[1].panicked

\* C11: no parameter of a statement of the result keeps a default that names
\* a type recorded as non-exported, whether the bare declaration stands before
\* or after the exported one; the forwarding line of X<T = Helper> is then
\* `export type X<T> = MODULE.X<T>`.
C11_PrivateDefaultsCleared ==
    (parsed # None /\ ~parsed[1].panicked) =>
        LET statements == parsed[1].statements
            recorded == ParseRun(stripped[1].output, ParseInit).non_exported_types
            texts == [i \in 1..Len(lua_code.segments) |->
                         Segments[lua_code.segments[i]].text]
        IN  /\ \A i \in 1..Len(statements) :
                   \A j \in 1..Len(statements[i].type_params) :
                       LET default == statements[i].type_params[j].default
                       IN  default # None => default[1] \notin recorded
            /\ texts \in {<<declHelper, declX>>, <<declX, declHelper>>} =>
                   /\ Len(statements) = 1
                   /\ to_forwarding_statement(statements[1], "MODULE")
                          = "export type X<T> = MODULE.X<T>"

\* the bare declaration of Helper stands after the exported X<T = Helper>
C11_HelperDeclaredAfter ==
    /\ parsed # None
    /\ ~parsed[1].panicked
    /\ Len(lua_code.segments) = 2
    /\ Segments[lua_code.segments[1]].text = declX
    /\ Segments[lua_code.segments[2]].text = declHelper
    /\ parsed[1].statements[1].type_params[1].default = None

C13_GenericDefaults ==
    (/\ parsed # None
     /\ ~parsed[1].panicked
     /\ lua_code.segments # << >>
     /\ Segments[lua_code.segments[1]].text = declMap) =>
        LET statements == parsed[1].statements
        IN  /\ Len(statements) >= 1
            /\ statements[1].name = <<"M", "a", "p">>
            /\ statements[1].type_params =
                   << [name |-> <<"K">>, is_pack |-> FALSE, default |-> None],
                      [name |-> <<"V">>, is_pack |-> FALSE,
                       default |-> Some(<<"s", "t", "r", "i", "n", "g">>)] >>
            /\ to_forwarding_statement(statements[1], "MODULE")
                   = "export type Map<K, V = string> = MODULE.Map<K, V>"

\* parse_types has run on a text that begins with the declaration of Map
C13_MapParsed ==
    /\ parsed # None
    /\ ~parsed[1].panicked
    /\ lua_code.segments # << >>
    /\ Segments[lua_code.segments[1]].text = declMap
    /\ Len(parsed[1].statements) = 2

\* C14: a text that begins with `export type Pack<T...> = () -> T...` yields
\* Pack with T recorded as a pack, forwarded with the marker in both lists,
\* `export type Pack<T...> = MODULE.Pack<T...>`; the parameters of Map, written
\* without the marker, are no packs and are rendered without it.
C14_VariadicPack ==
    (/\ parsed # None
     /\ ~parsed[1].panicked
     /\ lua_code.segments # << >>) =>
        LET statements == parsed[1].statements
            first == Segments[lua_code.segments[1]].text
        IN  /\ first = declPack =>
                   /\ Len(statements) >= 1
                   /\ statements[1].type_params =
                          << [name |-> <<"T">>, is_pack |-> TRUE, default |-> None] >>
                   /\ to_forwarding_statement(statements[1], "MODULE")
                          = "export type Pack<T...> = MODULE.Pack<T...>"
            /\ first = declMap =>
                   /\ Len(statements) >= 1
                   /\ \A j \in 1..Len(statements[1].type_params) :
                          ~statements[1].type_params[j].is_pack
                   /\ to_forwarding_statement(statements[1], "MODULE")
                          = "export type Map<K, V = string> = MODULE.Map<K, V>"

\* parse_types has run on a text that begins with the declaration of Pack
C14_PackParsed ==
    /\ parsed # None
    /\ ~parsed[1].panicked
    /\ lua_code.segments # << >>
    /\ Segments[lua_code.segments[1]].text = declPack
    /\ parsed[1].statements[1].type_params[1].is_pack

\* C18: every statement of the result is marked exported; the bare
\* declaration `type Helper = {}` at the start of a text is recorded in the
\* non-exported names, and alone it yields no statement.
C18_OnlyExportedStatements ==
    (parsed # None /\ ~parsed[1].panicked) =>
        LET statements == parsed[1].statements
            recorded == ParseRun(stripped[1].output, ParseInit).non_exported_types
        IN  /\ \A i \in 1..Len(statements) : statements[i].is_exported
            /\ (/\ lua_code.segments # << >>
                /\ Segments[lua_code.segments[1]].text = declHelper)
               => /\ <<"H", "e", "l", "p", "e", "r">> \in recorded
                  /\ Len(lua_code.segments) = 1 => statements = << >>

\* parse_types has run on a bare declaration followed by an exported one
C18_BareThenExported ==
    /\ parsed # None
    /\ ~parsed[1].panicked
    /\ Len(lua_code.segments) = 2
    /\ Segments[lua_code.segments[1]].text = declHelper
    /\ Segments[lua_code.segments[2]].text = declReal
    /\ Len(parsed[1].statements) = 1

\* C19: an `export` that is not followed by `type` is abandoned: in a text of
\* code only, where Helper is declared with a bare `type` and never exported,
\* no statement of the result is named Helper.
C19_ExportAbandoned ==
    (/\ parsed # None
     /\ \A i \in 1..Len(lua_code.segments) :
            Segments[lua_code.segments[i]].kind = "code") =>
        \A i \in 1..Len(parsed[1].statements) :
            parsed[1].statements[i].name # <<"H", "e", "l", "p", "e", "r">>

\* C20: on a text that begins with `[`, n >= 0 `=` and `[`, the first step of
\* the lexer enters the long-bracket string of depth exactly n, past the
\* opening bracket.
C20_LongBracketDepth ==
    LET code == lua_code.text
        n == CHOOSE k \in 0..Len(code) :
                 /\ \A i \in 1..k : get(code, i) = "="
                 /\ get(code, k + 1) # "="
    IN  (stripped # None /\ get(code, 0) = "[" /\ get(code, n + 1) = "[") =>
            LET s == LexStep(code, LexInit)
            IN  /\ ~s.panicked
                /\ s.state = LexBlockString(n)
                /\ s.index = n + 2

(***************************************************************************)
(* Properties of the scanning loops                                        *)
(***************************************************************************)

\* the first position at or after `from` where `word` stands in code, or the
\* length of code when it stands nowhere
RECURSIVE FirstAt(_, _, _)
FirstAt(code, word, from) ==
    IF from >= Len(code) THEN Len(code)
    ELSE IF starts_with(code, from, word) THEN from
    ELSE FirstAt(code, word, from + 1)

\* long-bracket regions by their opener: the closer that matches and the state
\* the region is scanned in
Regions ==
    << [opener |-> <<"[", "=", "=", "[">>, closer |-> <<"]", "=", "=", "]">>,
        state |-> LexBlockString(2)],
       [opener |-> <<"-", "-", "[", "=", "[">>, closer |-> <<"]", "=", "]">>,
        state |-> LexBlockComment(1)],
       [opener |-> <<"[", "[">>, closer |-> <<"]", "]">>,
        state |-> LexBlockString(0)] >>

\* C21: inside a long-bracket string or comment of depth N an iteration at a
\* `]` followed by exactly N `=` and a `]` returns to Code just past that
\* closer; every other iteration inside the region, at a `]` followed by fewer
\* or more `=` as well, moves on by one character and stays inside; nothing is
\* emitted.  A text that begins with [==[, with --[=[ or with [[ and no `=`
\* after it is inside the region up to the first matching closer, whatever
\* other closers stand before it.
C21_LongBracketClose ==
    /\ [](\A r \in 1..Len(Regions) :
            LET code == lua_code.text
                open == Len(Regions[r].opener)
                close == FirstAt(code, Regions[r].closer, open)
            IN  /\ starts_with(code, 0, Regions[r].opener)
                /\ Regions[r].state.depth = 0 => get(code, open) # "="
                /\ lexer # None
                =>
                    /\ lexer[1].index \in open..close =>
                           /\ lexer[1].state = Regions[r].state
                           /\ lexer[1].output = << >>
                    /\ lexer[1].index \notin
                           (close + 1)..(close + Len(Regions[r].closer) - 1)
                    /\ close < Len(code)
                           /\ lexer[1].index = close + Len(Regions[r].closer)
                           => lexer[1].state = LexCode /\ lexer[1].output = << >>)
    /\ [][lexer # None /\ lexer' # lexer
              /\ lexer[1].state.tag \in {"BlockString", "BlockComment"} =>
          LET code == lua_code.text
              s == lexer[1]
              t == lexer'[1]
              N == s.state.depth
              closes == /\ get(code, s.index) = "]"
                        /\ CountEq(code, s.index + 1) = N
                        /\ get(code, s.index + 1 + N) = "]"
          IN  /\ t.output = s.output
              /\ ~t.panicked
              /\ IF closes THEN t.state = LexCode /\ t.index = s.index + N + 2
                 ELSE t.state = s.state /\ t.index = s.index + 1]_vars

\* [==[ ]=] ]==] has been scanned: the closer of depth 1 was content, the scan
\* is in Code just past the closer of depth 2
C21_ClosedPastShorterCloser ==
    /\ lua_code.text = Tokens[1] \o Tokens[2] \o Tokens[5]
    /\ lexer # None
    /\ lexer[1].state = LexCode
    /\ lexer[1].index = Len(lua_code.text)
    /\ stripped = Some([output |-> << >>, panicked |-> FALSE])

\* the regions of a source text by their opener, each with the word that ends
\* it; `line` marks the opener of a line comment, which no `[` follows
Openers ==
    << [opener |-> <<"\"">>, closer |-> <<"\"">>, line |-> FALSE],
       [opener |-> <<"'">>, closer |-> <<"'">>, line |-> FALSE],
       [opener |-> <<Backtick>>, closer |-> <<Backtick>>, line |-> FALSE],
       [opener |-> <<"-", "-">>, closer |-> <<"\n">>, line |-> TRUE],
       [opener |-> <<"-", "-", "[", "=", "[">>, closer |-> <<"]", "=", "]">>,
        line |-> FALSE],
       [opener |-> <<"[", "=", "=", "[">>, closer |-> <<"]", "=", "=", "]">>,
        line |-> FALSE],
       [opener |-> <<"[", "[">>, closer |-> <<"]", "]">>, line |-> FALSE] >>

\* C24: when the text is code followed by the opener of a string, a comment
\* or a long-bracket region that nothing closes before the end of the text,
\* strip_comments_and_strings fails no assertion and returns the code before
\* the opener.
C24_UnterminatedStops ==
    \A r \in 1..Len(Openers) :
        LET code == lua_code.text
            lead == IF get(code, 0) = "a" THEN 1 ELSE 0
            open == lead + Len(Openers[r].opener)
        IN  /\ starts_with(code, lead, Openers[r].opener)
            /\ Openers[r].line => get(code, open) # "["
            /\ FirstAt(code, Openers[r].closer, open) = Len(code)
            /\ stripped # None
            => stripped[1] = [output |-> Slice(code, 0, lead), panicked |-> FALSE]

\* the quote characters, each with the state its string is scanned in
Quotes ==
    << [quote |-> Backtick, state |-> LexTemplateString],
       [quote |-> "\"", state |-> LexDoubleQuoteString],
       [quote |-> "'", state |-> LexSingleQuoteString] >>

\* the first position at or after `from` that holds the quote character q after
\* a character that is no backslash, or the length of code when there is none
RECURSIVE FirstUnescaped(_, _, _)
FirstUnescaped(code, q, from) ==
    IF from >= Len(code) THEN Len(code)
    ELSE IF get(code, from) = q /\ get(code, from - 1) # "\\" THEN from
    ELSE FirstUnescaped(code, q, from + 1)

\* C25: inside a template, double-quoted or single-quoted string an iteration
\* at a backslash followed by the string's quote character moves on by two
\* characters and stays in the string, an iteration at the quote character
\* returns to Code just past it, and every other iteration, at another quote
\* character as well, moves on by one character and stays in the string.  A
\* text that begins with a quote character is inside the string up to the
\* first occurrence of that character that no backslash precedes, and in Code
\* just past it.
C25_QuotedStrings ==
    /\ [](\A k \in 1..Len(Quotes) :
            LET code == lua_code.text
                q == Quotes[k].quote
                close == FirstUnescaped(code, q, 1)
            IN  get(code, 0) = q /\ lexer # None =>
                    /\ lexer[1].index \in 1..close =>
                           /\ lexer[1].state = Quotes[k].state
                           /\ lexer[1].output = << >>
                    /\ close < Len(code) /\ lexer[1].index = close + 1 =>
                           /\ lexer[1].state = LexCode
                           /\ lexer[1].output = << >>)
    /\ [][\A k \in 1..Len(Quotes) :
              lexer # None /\ lexer' # lexer /\ lexer[1].state = Quotes[k].state =>
                  LET code == lua_code.text
                      s == lexer[1]
                      t == lexer'[1]
                      q == Quotes[k].quote
                  IN  /\ t.output = s.output
                      /\ ~t.panicked
                      /\ IF get(code, s.index) = "\\" /\ get(code, s.index + 1) = q
                         THEN t.state = s.state /\ t.index = s.index + 2
                         ELSE IF get(code, s.index) = q
                         THEN t.state = LexCode /\ t.index = s.index + 1
                         ELSE t.state = s.state /\ t.index = s.index + 1]_vars

\* the text "\"' of a double quote, an escaped double quote, a single quote
\* has been scanned up to its end and is still inside the string
C25_EscapedQuoteSkipped ==
    /\ lua_code.text = Tokens[9] \o Tokens[12] \o Tokens[10]
    /\ lexer # None
    /\ lexer[1].state = LexDoubleQuoteString
    /\ lexer[1].index = 4
    /\ stripped = Some([output |-> << >>, panicked |-> FALSE])

\* how many iterations a lexer state can be followed by without the scan
\* position moving: a LineComment at a line end becomes Code where it stands
LexRank(state) == IF state.tag = "LineComment" THEN 1 ELSE 0

\* the same for the parser: Type and TypePack can give way to
\* StartTypeParamList and TypeDefault, these and Export to Code and
\* NextTypeParam, all at one position
ParseRank(state) ==
    IF state \in {"Type", "TypePack"} THEN 2
    ELSE IF state \in {"Export", "StartTypeParamList", "TypeDefault"} THEN 1
    ELSE 0

\* parse_types has returned, or it has panicked
Returned == parsed # None \/ (stripped # None /\ stripped[1].panicked)

\* C28: every iteration of the loop of strip_comments_and_strings and of the
\* loop of parse_types either moves the scan position forward, or leaves it
\* and takes a state of lower rank, or fails an assertion, so that no cycle of
\* states stays at one position; and on every text both loops come to their
\* end.
C28_ScansTerminate ==
    /\ [][(lexer # None /\ lexer' # lexer) =>
              (\/ lexer'[1].panicked
               \/ lexer'[1].index > lexer[1].index
               \/ /\ lexer'[1].index = lexer[1].index
                  /\ LexRank(lexer'[1].state) < LexRank(lexer[1].state))]_vars
    /\ [][(parser # None /\ parser' # parser) =>
              (\/ parser'[1].panicked
               \/ parser'[1].done
               \/ parser'[1].index > parser[1].index
               \/ /\ parser'[1].index = parser[1].index
                  /\ ParseRank(parser'[1].state) < ParseRank(parser[1].state))]_vars
    /\ [](lexer # None => lexer[1].index <= Len(lua_code.text))
    /\ <>Returned

\* the parser has gone from Type through StartTypeParamList to Code at one
\* position, on `local type = 1`, and parse_types has returned
C28_StateChangesInPlace ==
    /\ lua_code.text = <<"l", "o", "c", "a", "l", " ", "t", "y", "p", "e", " ", "=", " ",
                         "1", "\n">>
    /\ parsed = Some([statements |-> << >>, panicked |-> FALSE])
    /\ parser[1].non_exported_types = {<< >>}

====
